---------------------------- MODULE Spec2Model ----------------------------
(***************************************************************************)
(* A model of the SAC agent of rl_lab:                                     *)
(*   src/sac/sac_agent.py       SACAgent.train, .logging,                  *)
(*                              .explained_variance                        *)
(*   src/src/sac/sac_policy.py  SACPolicy.eval_cont, .step_cont            *)
(*                                                                         *)
(* Four state machines share the module, one per specification:            *)
(*   Spec        the control loop of SACAgent.train, one action per        *)
(*               statement group, with the data flow of every local kept   *)
(*               as a symbolic term (which network, which weights, which   *)
(*               observation, which sample of the policy);                 *)
(*   SpecTarget  the arithmetic of the critic target (lines 149-152) over  *)
(*               float values, non-finite ones included;                   *)
(*   SpecPolicy  the two policy evaluations, up to the argument of tf.exp; *)
(*   SpecEV      explained_variance over small integer arrays, in exact    *)
(*               arithmetic.                                               *)
(*                                                                         *)
(* How the source is read.  sac_agent.py does not run as written, and the  *)
(* model fixes one reading of it:                                          *)
(*  (a) an identifier that misspells a binding in scope is read as that    *)
(*      binding: `action` (127) as `actions`, `self.done` (128) as         *)
(*      `self.dones`, `trianable_weights` (172, 175) as                    *)
(*      `trainable_weights`, `tf.min` (164) as `tf.minimum`,               *)
(*      `self.num_env` (81, 84) as num_envs, and                           *)
(*      `for g in self.gradient_steps` (132) as a loop of gradient_steps   *)
(*      repetitions;                                                       *)
(*  (b) a name that nothing in the repository binds (num_actions,          *)
(*      process_inputs, b_values, ep_infos, entropy_loss, value_loss) is   *)
(*      a free global of the module; it is taken as bound by the           *)
(*      importing namespace and its value is opaque;                       *)
(*  (c) a local of train (b_rewards, policy_loss) is bound exactly when    *)
(*      an assignment to it has run; reading it unbound raises             *)
(*      UnboundLocalError, which ends train;                               *)
(*  (d) the sinks of logging (print, tf.summary, save_weights, lines       *)
(*      203-225) are outside the model.                                    *)
(* ParallelEnv, ReplayBuffer, RandomPolicy and the networks are imported   *)
(* from modules that are not among the sources; they are modelled by       *)
(* their contract.                                                         *)
(***************************************************************************)
EXTENDS Integers, Sequences, FiniteSets

(***************************************************************************)
(* Bounds of the model.                                                    *)
(***************************************************************************)
MaxTrainSteps == 3
MaxRandomSteps == 1
MaxTrainFreq == 2
MaxBatchSize == 2
MaxGradientSteps == 2
MaxBufferSize == 2
MaxEpInfos == 1
MaxLenEV == 3
LogStdMargin == 3

VARIABLES
  \* ---- SACAgent: configuration (lines 92-98, 85)
  train_steps, random_steps, train_freq, batch_size, gradient_steps, buffer_size,
  \* ---- SACAgent: fields
  obs,            \* self.obs (line 53)
  dones,          \* self.dones (line 124)
  replay_buffer,  \* self.replay_buffer: sequence of transitions, oldest first
  q1, q2, actor,  \* live networks: number of gradient updates applied
  q1_t, q2_t,     \* target networks: version of the live critic they were last synchronised from
  episodes,       \* self.episodes (lines 105, 195)
  \* ---- SACAgent.train: locals and position
  pc, i, g, actions, new_obs, rewards,
  batch,          \* b_obs, b_actions, b_rewards, b_n_obs, b_dones (line 141); <<>> while unbound
  bound,          \* the locals of train that are bound (reading (c))
  target_q, q_loss, policy_loss, n_qs,
  err,            \* the exception that ended train, "none" otherwise
  \* ---- the environment (ParallelEnv) and the random source of the policy
  envObs,         \* the environment's current observation
  envPrev,        \* the observation the last step started from
  envAct,         \* the actions the last step received
  draws,          \* number of samples drawn from the policy so far
  \* ---- history of the run
  selLog,         \* per iteration, the policy that produced the actions given to env.step
  addLog,         \* per iteration, the number of calls of replay_buffer.add
  order,          \* the steps of the current gradient repetition, in order
  \* ---- the critic target of one sample (SpecTarget), lines 145-152
  tg_pc, b_rewards, b_dones, gamma, alpha, q1_ts, q2_ts, n_log_probs, target,
  \* ---- one evaluation of SACPolicy (SpecPolicy)
  pol_pc, mean, log_std, deterministic,
  exp_arg,        \* the argument tf.exp was called with
  pre_squish,     \* what pre_squish_action was computed from
  \* ---- one call of explained_variance (SpecEV)
  ev_pc, y_pred, y_true, ev

trainVars == <<train_steps, random_steps, train_freq, batch_size, gradient_steps,
               buffer_size, obs, dones, replay_buffer, q1, q2, actor, q1_t, q2_t,
               episodes, pc, i, g, actions, new_obs, rewards, batch, bound,
               target_q, q_loss, policy_loss, n_qs, err, envObs, envPrev, envAct,
               draws, selLog, addLog, order>>

targetVars == <<tg_pc, b_rewards, b_dones, gamma, alpha, q1_ts, q2_ts, n_log_probs, target>>
policyVars == <<pol_pc, mean, log_std, deterministic, exp_arg, pre_squish>>
evVars == <<ev_pc, y_pred, y_true, ev>>

others == <<targetVars, policyVars, evVars>>
vars == <<trainVars, targetVars, policyVars, evVars>>

cfg == <<train_steps, random_steps, train_freq, batch_size, gradient_steps, buffer_size>>

(***************************************************************************)
(* Values.                                                                 *)
(***************************************************************************)
Rewards == {0, 1}
Dones == {0, 1}

\* The action batch a policy returns: who produced it, from which observation,
\* with which actor weights, and which sample of the noise it is.
RandomActions == [by |-> "random", obs |-> -1, w |-> 0, draw |-> 0]
PolicyActions(o, w, k) == [by |-> "policy", obs |-> o, w |-> w, draw |-> k]

\* A batch-level policy sample (actions and their log-probabilities come from
\* the same sample) and the actions stored in the minibatch.
BatchSample(at, w, k) == [by |-> "policy", at |-> at, w |-> w, draw |-> k]
StoredActions == [by |-> "buffer", at |-> "b_obs", w |-> 0, draw |-> 0]
NoSample == [by |-> "none", at |-> "none", w |-> 0, draw |-> 0]

\* The output of a critic: which network, with which weights, evaluated where.
QEval(net, w, at, act) == [net |-> net, w |-> w, at |-> at, act |-> act]
NoQ == QEval("none", 0, "none", NoSample)

Transition(o, a, r, n, d) == [obs |-> o, act |-> a, rew |-> r, nobs |-> n, done |-> d]

(***************************************************************************)
(* ReplayBuffer (src.general.replay_buffers.replay_buffer, not among the   *)
(* sources): a ring of at most buffer_size transitions.                    *)
(***************************************************************************)
add(buf, cap, t) == IF Len(buf) >= cap THEN Append(Tail(buf), t) ELSE Append(buf, t)

can_sample(buf, n) == Len(buf) >= n

\* sample(n): n stored transitions, each drawn uniformly.
Samples(buf, n) == { [k \in 1..n |-> buf[f[k]]] : f \in [1..n -> 1..Len(buf)] }

(***************************************************************************)
(* SACAgent.__init__: the state train starts from.                         *)
(***************************************************************************)
TrainInit ==
  /\ train_steps \in 1..MaxTrainSteps
  /\ random_steps \in 0..MaxRandomSteps
  /\ train_freq \in 1..MaxTrainFreq
  /\ batch_size \in 1..MaxBatchSize
  /\ gradient_steps \in 1..MaxGradientSteps
  /\ buffer_size \in 1..MaxBufferSize
  /\ obs = 0 /\ envObs = 0 /\ envPrev = -1 /\ envAct = RandomActions
  /\ dones = 0
  /\ replay_buffer = <<>>
  /\ q1 = 0 /\ q2 = 0 /\ actor = 0
  /\ q1_t = 0 /\ q2_t = 0
  /\ episodes = 0
  /\ pc = "select" /\ i = 0 /\ g = 0
  /\ actions = RandomActions /\ new_obs = -1 /\ rewards = 0
  /\ batch = <<>> /\ bound = {}
  /\ target_q = [min |-> <<NoQ, NoQ>>, logp |-> NoSample, w |-> <<0, 0, 0>>]
  /\ q_loss = <<NoQ, NoQ>>
  /\ policy_loss = [logp |-> NoSample, min |-> <<NoQ, NoQ>>, w |-> <<0, 0, 0>>]
  /\ n_qs = <<NoQ, NoQ>>
  /\ err = "none"
  /\ draws = 0
  /\ selLog = <<>> /\ addLog = <<>> /\ order = <<>>

Weights == <<q1, q2, actor>>

(***************************************************************************)
(* SACAgent.train, lines 117-187.                                          *)
(***************************************************************************)
\* line 118 with the comparison off by one
UseRandomPolicy_OffByOne == i <= random_steps

\* line 118
UseRandomPolicy == i < random_steps

\* lines 118-121: action selection
SelectAction ==
  /\ pc = "select"
  /\ IF UseRandomPolicy
       THEN /\ actions' = RandomActions
            /\ draws' = draws
       ELSE /\ actions' = PolicyActions(obs, actor, draws + 1)
            /\ draws' = draws + 1
  /\ pc' = "step"
  /\ UNCHANGED <<cfg, others, obs, dones, replay_buffer, q1, q2, actor, q1_t, q2_t,
                 episodes, i, g, new_obs, rewards, batch, bound, target_q, q_loss,
                 policy_loss, n_qs, err, envObs, envPrev, envAct, selLog, addLog,
                 order>>

\* line 124: the environment moves to a new observation; self.obs is not assigned
EnvStep ==
  /\ pc = "step"
  /\ \E r \in Rewards, d \in Dones :
       /\ rewards' = r
       /\ dones' = d
  /\ new_obs' = envObs + 1
  /\ envPrev' = envObs
  /\ envObs' = envObs + 1
  /\ envAct' = actions
  /\ selLog' = Append(selLog, actions.by)
  /\ pc' = "add"
  /\ UNCHANGED <<cfg, others, obs, replay_buffer, q1, q2, actor, q1_t, q2_t,
                 episodes, i, g, actions, batch, bound, target_q, q_loss,
                 policy_loss, n_qs, err, draws, addLog, order>>

\* lines 127-128
StoreTransition ==
  /\ pc = "add"
  /\ replay_buffer' = add(replay_buffer, buffer_size,
                          Transition(obs, actions, rewards, new_obs, dones))
  /\ addLog' = Append(addLog, 1)
  /\ g' = 0
  /\ pc' = "gate"
  /\ UNCHANGED <<cfg, others, obs, dones, q1, q2, actor, q1_t, q2_t, episodes, i,
                 actions, new_obs, rewards, batch, bound, target_q, q_loss,
                 policy_loss, n_qs, err, envObs, envPrev, envAct, draws, selLog,
                 order>>

\* line 131
LearnPeriod == i % train_freq = 0

\* lines 135-136 without the can_sample test
SkipLearning_NoBufferCheck == i < random_steps

\* lines 135-136: the condition of the break
SkipLearning == ~can_sample(replay_buffer, batch_size) \/ i < random_steps

\* lines 131-137: the head of the learning loop
Gate ==
  /\ pc = "gate"
  /\ pc' = IF LearnPeriod /\ g < gradient_steps /\ ~SkipLearning
             THEN "sample" ELSE "log"
  /\ UNCHANGED <<cfg, others, obs, dones, replay_buffer, q1, q2, actor, q1_t, q2_t,
                 episodes, i, g, actions, new_obs, rewards, batch, bound, target_q,
                 q_loss, policy_loss, n_qs, err, envObs, envPrev, envAct, draws,
                 selLog, addLog, order>>

\* lines 170-179 with the actor update moved before the critic updates
NextStep_ActorFirst(p) ==
  CASE p = "sample" -> "targets"
    [] p = "targets" -> "q_loss"
    [] p = "q_loss" -> "policy_loss"
    [] p = "policy_loss" -> "apply_actor"
    [] p = "apply_actor" -> "apply_q1"
    [] p = "apply_q1" -> "apply_q2"
    [] p = "apply_q2" -> "gate"

\* the statements of one gradient repetition, lines 140-181, in source order
NextStep(p) ==
  CASE p = "sample" -> "targets"
    [] p = "targets" -> "q_loss"
    [] p = "q_loss" -> "policy_loss"
    [] p = "policy_loss" -> "apply_q1"
    [] p = "apply_q1" -> "apply_q2"
    [] p = "apply_q2" -> "apply_actor"
    [] p = "apply_actor" -> "gate"

\* lines 140-142
SampleBatch ==
  /\ pc = "sample"
  /\ batch' \in Samples(replay_buffer, batch_size)
  /\ bound' = bound \cup {"b_rewards"}
  /\ order' = <<"sample">>
  /\ pc' = NextStep("sample")
  /\ UNCHANGED <<cfg, others, obs, dones, replay_buffer, q1, q2, actor, q1_t, q2_t,
                 episodes, i, g, actions, new_obs, rewards, target_q, q_loss,
                 policy_loss, n_qs, err, envObs, envPrev, envAct, draws, selLog,
                 addLog>>

\* lines 149-152, as a term: the minimum of both target critics, the
\* log-probabilities of the next actions, and the weights in force
TargetTerm(q1ts, q2ts, logp) == [min |-> <<q1ts, q2ts>>, logp |-> logp, w |-> Weights]

\* lines 145-152
ComputeTargets ==
  /\ pc = "targets"
  /\ LET n == BatchSample("b_n_obs", actor, draws + 1)
     IN  target_q' = TargetTerm(QEval("q1_t", q1_t, "b_n_obs", n),
                                QEval("q2_t", q2_t, "b_n_obs", n), n)
  /\ draws' = draws + 1
  /\ order' = Append(order, "targets")
  /\ pc' = NextStep("targets")
  /\ UNCHANGED <<cfg, others, obs, dones, replay_buffer, q1, q2, actor, q1_t, q2_t,
                 episodes, i, g, actions, new_obs, rewards, batch, bound, q_loss,
                 policy_loss, n_qs, err, envObs, envPrev, envAct, selLog, addLog>>

\* lines 155-158: both live critics at the stored actions
CriticLoss ==
  /\ pc = "q_loss"
  /\ q_loss' = <<QEval("q1", q1, "b_obs", StoredActions),
                 QEval("q2", q2, "b_obs", StoredActions)>>
  /\ order' = Append(order, "q_loss")
  /\ pc' = NextStep("q_loss")
  /\ UNCHANGED <<cfg, others, obs, dones, replay_buffer, q1, q2, actor, q1_t, q2_t,
                 episodes, i, g, actions, new_obs, rewards, batch, bound, target_q,
                 policy_loss, n_qs, err, envObs, envPrev, envAct, draws, selLog,
                 addLog>>

\* line 164: min_n_qs = tf.min(q1s, q2s)
MinNQs(q1s, q2s, n_q1s, n_q2s) == <<q1s, q2s>>

\* lines 161-167
PolicyLoss ==
  /\ pc = "policy_loss"
  /\ LET new == BatchSample("b_obs", actor, draws + 1)
         n_q1s == QEval("q1", q1, "b_obs", new)
         n_q2s == QEval("q2", q2, "b_obs", new)
     IN  /\ n_qs' = <<n_q1s, n_q2s>>
         /\ policy_loss' = [logp |-> new,
                            min |-> MinNQs(q_loss[1], q_loss[2], n_q1s, n_q2s),
                            w |-> Weights]
  /\ draws' = draws + 1
  /\ bound' = bound \cup {"policy_loss"}
  /\ order' = Append(order, "policy_loss")
  /\ pc' = NextStep("policy_loss")
  /\ UNCHANGED <<cfg, others, obs, dones, replay_buffer, q1, q2, actor, q1_t, q2_t,
                 episodes, i, g, actions, new_obs, rewards, batch, target_q, q_loss,
                 err, envObs, envPrev, envAct, selLog, addLog>>

\* lines 170-172
ApplyQ1 ==
  /\ pc = "apply_q1"
  /\ q1' = q1 + 1
  /\ order' = Append(order, "apply_q1")
  /\ pc' = NextStep("apply_q1")
  /\ UNCHANGED <<cfg, others, obs, dones, replay_buffer, q2, actor, q1_t, q2_t,
                 episodes, i, g, actions, new_obs, rewards, batch, bound, target_q,
                 q_loss, policy_loss, n_qs, err, envObs, envPrev, envAct, draws,
                 selLog, addLog>>

\* lines 173-175
ApplyQ2 ==
  /\ pc = "apply_q2"
  /\ q2' = q2 + 1
  /\ order' = Append(order, "apply_q2")
  /\ pc' = NextStep("apply_q2")
  /\ UNCHANGED <<cfg, others, obs, dones, replay_buffer, q1, actor, q1_t, q2_t,
                 episodes, i, g, actions, new_obs, rewards, batch, bound, target_q,
                 q_loss, policy_loss, n_qs, err, envObs, envPrev, envAct, draws,
                 selLog, addLog>>

\* lines 176-181, and back to the head of the loop (line 132)
ApplyActor ==
  /\ pc = "apply_actor"
  /\ actor' = actor + 1
  /\ order' = Append(order, "apply_actor")
  /\ g' = g + 1
  /\ pc' = NextStep("apply_actor")
  /\ UNCHANGED <<cfg, others, obs, dones, replay_buffer, q1, q2, q1_t, q2_t,
                 episodes, i, actions, new_obs, rewards, batch, bound, target_q,
                 q_loss, policy_loss, n_qs, err, envObs, envPrev, envAct, draws,
                 selLog, addLog>>

\* line 184: the locals the call of logging reads
LoggingArgs == {"b_rewards", "policy_loss"}

\* lines 184-187 and 189-201, then the next iteration of line 117
Log ==
  /\ pc = "log"
  /\ IF LoggingArgs \subseteq bound
       THEN /\ \E n \in 0..MaxEpInfos : episodes' = episodes + n
            /\ i' = i + 1
            /\ pc' = IF i + 1 < train_steps THEN "select" ELSE "done"
            /\ err' = err
       ELSE /\ err' = "UnboundLocalError"
            /\ pc' = "error"
            /\ UNCHANGED <<episodes, i>>
  /\ UNCHANGED <<cfg, others, obs, dones, replay_buffer, q1, q2, actor, q1_t, q2_t,
                 g, actions, new_obs, rewards, batch, bound, target_q, q_loss,
                 policy_loss, n_qs, envObs, envPrev, envAct, draws, selLog, addLog,
                 order>>

(***************************************************************************)
(* The critic target of one sample, lines 145-152, over float values.      *)
(* A float is finite (here: a small integer, which floats hold exactly),   *)
(* an infinity or NaN; the operators follow IEEE 754: NaN is absorbing,    *)
(* 0 * inf and inf - inf are NaN.  The operations are element-wise, so one *)
(* sample of the minibatch stands for each.                                *)
(***************************************************************************)
Fin(n) == [k |-> "fin", v |-> n]
NaN == [k |-> "nan", v |-> 0]
PInf == [k |-> "inf", v |-> 1]
NInf == [k |-> "inf", v |-> -1]

Sign(n) == IF n > 0 THEN 1 ELSE IF n < 0 THEN -1 ELSE 0

FNeg(x) == IF x.k = "nan" THEN NaN ELSE [k |-> x.k, v |-> 0 - x.v]

FAdd(x, y) ==
  IF x.k = "nan" \/ y.k = "nan" THEN NaN
  ELSE IF x.k = "inf" /\ y.k = "inf" THEN (IF x.v = y.v THEN x ELSE NaN)
  ELSE IF x.k = "inf" THEN x
  ELSE IF y.k = "inf" THEN y
  ELSE Fin(x.v + y.v)

FSub(x, y) == FAdd(x, FNeg(y))

FMul(x, y) ==
  IF x.k = "nan" \/ y.k = "nan" THEN NaN
  ELSE IF x.k = "fin" /\ y.k = "fin" THEN Fin(x.v * y.v)
  ELSE IF Sign(x.v) * Sign(y.v) = 0 THEN NaN
  ELSE [k |-> "inf", v |-> Sign(x.v) * Sign(y.v)]

FLess(x, y) ==
  IF x.k = "nan" \/ y.k = "nan" THEN FALSE
  ELSE IF x.k = "fin" /\ y.k = "fin" THEN x.v < y.v
  ELSE IF x.k = "inf" /\ y.k = "inf" THEN x.v < y.v
  ELSE IF x.k = "inf" THEN x.v < 0
  ELSE y.v > 0

\* tf.minimum: the smaller operand; NaN when an operand is NaN
FMinimum(x, y) ==
  IF x.k = "nan" \/ y.k = "nan" THEN NaN
  ELSE IF FLess(x, y) THEN x ELSE y

\* lines 149-150: min_q_ts = tf.minimum(q1_ts, q2_ts) - self.alpha * n_log_probs
MinQTs(q1v, q2v, a, logp) == FSub(FMinimum(q1v, q2v), FMul(a, logp))

\* lines 151-152 without the (1 - b_dones) factor
TargetQ_NoMask(r, d, gm, minq) == FAdd(r, FMul(gm, minq))

\* lines 151-152: b_rewards + (1 - b_dones) * self.gamma * min_q_ts
TargetQ(r, d, gm, minq) == FAdd(r, FMul(FMul(FSub(Fin(1), d), gm), minq))

FiniteVals == {Fin(-1), Fin(0), Fin(2)}
FloatVals == FiniteVals \cup {NaN, PInf, NInf}
GammaVals == {Fin(0), Fin(1), Fin(2)}
AlphaVals == {Fin(0), Fin(1), Fin(2)}
RewardVals == {Fin(0), Fin(1)}
DoneVals == {Fin(0), Fin(1)}

TargetInit ==
  /\ tg_pc = "batch"
  /\ b_rewards \in RewardVals
  /\ b_dones \in DoneVals
  /\ gamma \in GammaVals
  /\ alpha \in AlphaVals
  /\ q1_ts \in FloatVals
  /\ q2_ts \in FloatVals
  /\ n_log_probs \in FloatVals
  /\ target = NaN

TargetIdle ==
  /\ tg_pc = "off"
  /\ b_rewards = Fin(0) /\ b_dones = Fin(0) /\ gamma = Fin(0) /\ alpha = Fin(0)
  /\ q1_ts = Fin(0) /\ q2_ts = Fin(0) /\ n_log_probs = Fin(0)
  /\ target = NaN

\* lines 149-152
ComputeTargetQ ==
  /\ tg_pc = "batch"
  /\ target' = TargetQ(b_rewards, b_dones, gamma, MinQTs(q1_ts, q2_ts, alpha, n_log_probs))
  /\ tg_pc' = "done"
  /\ UNCHANGED <<b_rewards, b_dones, gamma, alpha, q1_ts, q2_ts, n_log_probs>>
  /\ UNCHANGED <<trainVars, policyVars, evVars>>

(***************************************************************************)
(* SACPolicy.eval_cont and SACPolicy.step_cont, up to the standard         *)
(* deviation: the actor's output and the argument of tf.exp.               *)
(***************************************************************************)
LOG_STD_MAX == 2
LOG_STD_MIN == -20

Means == {-1, 0, 1}
LogStds == (LOG_STD_MIN - LogStdMargin)..(LOG_STD_MAX + LogStdMargin)
NoCall == LOG_STD_MIN - LogStdMargin - 1

\* self.model(obs): the actor's output is not constrained
PolicyInit ==
  /\ pol_pc = "call"
  /\ mean \in Means
  /\ log_std \in LogStds
  /\ deterministic \in BOOLEAN
  /\ exp_arg = NoCall
  /\ pre_squish = "none"

PolicyIdle ==
  /\ pol_pc = "off"
  /\ mean = 0 /\ log_std = 0 /\ deterministic = FALSE
  /\ exp_arg = NoCall /\ pre_squish = "none"

\* lines 68-70: the clip of line 69 is commented out
EvalStdArg(ls) == ls

\* lines 98-99
StepStdArg(ls) == ls

\* lines 68-95 (flag = False)
eval_cont ==
  /\ pol_pc = "call"
  /\ exp_arg' = EvalStdArg(log_std)
  /\ pre_squish' = "mean + std * noise"
  /\ pol_pc' = "eval_cont returned"
  /\ UNCHANGED <<mean, log_std, deterministic>>
  /\ UNCHANGED <<trainVars, targetVars, evVars>>

\* lines 98-106
step_cont ==
  /\ pol_pc = "call"
  /\ exp_arg' = StepStdArg(log_std)
  /\ pre_squish' = IF deterministic THEN "mean" ELSE "mean + std * noise"
  /\ pol_pc' = "step_cont returned"
  /\ UNCHANGED <<mean, log_std, deterministic>>
  /\ UNCHANGED <<trainVars, targetVars, evVars>>

(***************************************************************************)
(* SACAgent.explained_variance, lines 227-238, on 1-D arrays of small      *)
(* integers, in exact rational arithmetic (a fraction n / d with d > 0).   *)
(***************************************************************************)
YVals == {0, 1, 2}

RECURSIVE SumSeq(_)
SumSeq(x) == IF x = <<>> THEN 0 ELSE Head(x) + SumSeq(Tail(x))

Squares(x) == [k \in DOMAIN x |-> x[k] * x[k]]

\* np.var: the mean of the squares minus the square of the mean
Var(x) == [n |-> Len(x) * SumSeq(Squares(x)) - SumSeq(x) * SumSeq(x),
           d |-> Len(x) * Len(x)]

\* y_true - y_pred
Diff(x, y) == [k \in DOMAIN x |-> x[k] - y[k]]

FracDiv(a, b) == [n |-> a.n * b.d, d |-> a.d * b.n]
OneMinus(a) == [n |-> a.d - a.n, d |-> a.d]

Num(f) == [k |-> "num", n |-> f.n, d |-> f.d]
NaNSentinel == [k |-> "nan", n |-> 0, d |-> 1]

\* line 238 with the variance of y_pred in place of that of the residual
explained_variance_VarOfPred(yp, yt) ==
  LET var_y == Var(yt)
  IN  IF var_y.n = 0 THEN NaNSentinel
      ELSE Num(OneMinus(FracDiv(Var(yp), var_y)))

\* lines 237-238
explained_variance(yp, yt) ==
  LET var_y == Var(yt)
  IN  IF var_y.n = 0 THEN NaNSentinel
      ELSE Num(OneMinus(FracDiv(Var(Diff(yt, yp)), var_y)))

EVInit ==
  /\ ev_pc = "call"
  /\ \E n \in 1..MaxLenEV :
       /\ y_pred \in [1..n -> YVals]
       /\ y_true \in [1..n -> YVals]
  /\ ev = NaNSentinel

EVIdle ==
  /\ ev_pc = "off"
  /\ y_pred = <<0>> /\ y_true = <<0>>
  /\ ev = NaNSentinel

\* line 201: explained_variance = self.explained_variance(values, rewards)
ExplainedVariance ==
  /\ ev_pc = "call"
  /\ ev' = explained_variance(y_pred, y_true)
  /\ ev_pc' = "returned"
  /\ UNCHANGED <<y_pred, y_true>>
  /\ UNCHANGED <<trainVars, targetVars, policyVars>>

\* train is not running: the state the other machines start beside
TrainIdle ==
  /\ train_steps = 1 /\ random_steps = 0 /\ train_freq = 1
  /\ batch_size = 1 /\ gradient_steps = 1 /\ buffer_size = 1
  /\ obs = 0 /\ envObs = 0 /\ envPrev = -1 /\ envAct = RandomActions
  /\ dones = 0
  /\ replay_buffer = <<>>
  /\ q1 = 0 /\ q2 = 0 /\ actor = 0
  /\ q1_t = 0 /\ q2_t = 0
  /\ episodes = 0
  /\ pc = "off" /\ i = 0 /\ g = 0
  /\ actions = RandomActions /\ new_obs = -1 /\ rewards = 0
  /\ batch = <<>> /\ bound = {}
  /\ target_q = [min |-> <<NoQ, NoQ>>, logp |-> NoSample, w |-> <<0, 0, 0>>]
  /\ q_loss = <<NoQ, NoQ>>
  /\ policy_loss = [logp |-> NoSample, min |-> <<NoQ, NoQ>>, w |-> <<0, 0, 0>>]
  /\ n_qs = <<NoQ, NoQ>>
  /\ err = "none"
  /\ draws = 0
  /\ selLog = <<>> /\ addLog = <<>> /\ order = <<>>

Init == TrainInit /\ TargetIdle /\ PolicyIdle /\ EVIdle

Next ==
  \/ SelectAction
  \/ EnvStep
  \/ StoreTransition
  \/ Gate
  \/ SampleBatch
  \/ ComputeTargets
  \/ CriticLoss
  \/ PolicyLoss
  \/ ApplyQ1
  \/ ApplyQ2
  \/ ApplyActor
  \/ Log

Spec == Init /\ [][Next]_vars

InitTarget == TargetInit /\ TrainIdle /\ PolicyIdle /\ EVIdle

NextTarget == ComputeTargetQ

SpecTarget == InitTarget /\ [][NextTarget]_vars

InitPolicy == PolicyInit /\ TrainIdle /\ TargetIdle /\ EVIdle

NextPolicy ==
  \/ eval_cont
  \/ step_cont

SpecPolicy == InitPolicy /\ [][NextPolicy]_vars

InitEV == EVInit /\ TrainIdle /\ TargetIdle /\ PolicyIdle

NextEV == ExplainedVariance

SpecEV == InitEV /\ [][NextEV]_vars


(***************************************************************************)
(* Properties.                                                             *)
(***************************************************************************)
LearningSteps == {"sample", "targets", "q_loss", "policy_loss",
                  "apply_q1", "apply_q2", "apply_actor"}

\* C1: a learning step (the sampling of a minibatch and every statement of the
\* gradient repetition after it) runs in iteration i only while
\* i % train_freq = 0, the buffer holds at least batch_size transitions and
\* i >= random_steps; the minibatch sampled has batch_size transitions.
C1_LearnOnlyWhenGatesHold ==
  pc \in LearningSteps =>
    /\ i % train_freq = 0
    /\ Len(replay_buffer) >= batch_size
    /\ i >= random_steps
    /\ (pc # "sample" => Len(batch) = batch_size)

\* C1 witness: a minibatch was sampled in iteration 2 of a run that learns
\* every second iteration (iteration 1 was skipped by the period gate).
C1_Witness ==
  /\ pc = "targets" /\ i = 2 /\ train_freq = 2
  /\ Len(batch) = batch_size /\ Len(replay_buffer) >= batch_size

C3_TargetsFollowLiveCritics ==
  (pc = "done" /\ q1 > 0 /\ q2 > 0) => (q1_t > 0 /\ q2_t > 0)

IsPrefix(s, t) == Len(s) <= Len(t) /\ \A k \in 1..Len(s) : s[k] = t[k]

CodeOrder == <<"sample", "targets", "q_loss", "policy_loss",
               "apply_q1", "apply_q2", "apply_actor">>
ClaimedOrder == <<"sample", "targets", "q_loss", "apply_q1", "apply_q2",
                  "policy_loss", "apply_actor">>

\* C4 (as claimed): in every gradient repetition the actor loss is computed
\* after both critic updates of that repetition have been applied.
C4_ActorLossAfterCriticUpdates ==
  /\ IsPrefix(order, ClaimedOrder)
  /\ (pc = "apply_actor" => (policy_loss.w[1] = q1 /\ policy_loss.w[2] = q2))

\* C4 (amended): every gradient repetition runs sample, targets, critic losses,
\* actor loss, q1 update, q2 update, actor update, in this order; the targets
\* and both losses are computed before any weight of the repetition changes,
\* and the actor update is applied after both critic updates, from a loss
\* computed with the critics as they were before them.
C4_StepOrder ==
  /\ IsPrefix(order, CodeOrder)
  /\ (pc \in {"q_loss", "policy_loss", "apply_q1"} => target_q.w = Weights)
  /\ (pc = "apply_q1" => policy_loss.w = Weights)
  /\ (pc = "apply_actor" =>
        /\ policy_loss.w = <<q1 - 1, q2 - 1, actor>>
        /\ target_q.w = policy_loss.w)

\* C4 witness: the second gradient repetition of an iteration has completed.
C4_Witness == pc = "gate" /\ g = 2 /\ order = CodeOrder /\ actor = q1 /\ q1 >= 2

\* C6 (as claimed): the actor loss takes its log-probabilities from a fresh
\* sample of the policy at b_obs, not the one used for the targets, and the
\* minimum of both live critics evaluated at that resampled action.
C6_ActorLossAtResampledActions ==
  "policy_loss" \in bound =>
    /\ policy_loss.logp.at = "b_obs"
    /\ policy_loss.logp # target_q.logp
    /\ \A c \in 1..2 : policy_loss.min[c].act = policy_loss.logp

\* C8 (as claimed): no iteration of train raises, so train ends after
\* train_steps iterations.
C8_SkippedIterationCompletes ==
  /\ err = "none"
  /\ pc # "error"
  /\ (pc = "done" => i = train_steps)

\* C10 (as claimed): after the add of iteration i exactly one transition has
\* been added per iteration, and the newest one is the environment step of
\* this iteration: the observation it started from, the actions it received
\* and its outputs; a trained policy chose the actions from that observation.
C10_StoredTransitionIsEnvStep ==
  (pc = "gate" /\ g = 0) =>
    /\ Len(addLog) = i + 1
    /\ replay_buffer[Len(replay_buffer)] =
         Transition(envPrev, envAct, rewards, envObs, dones)
    /\ (envAct.by = "policy" => envAct.obs = envPrev)

IsFinite(x) == x.k = "fin"
Min2(a, b) == IF a < b THEN a ELSE b

C7_LogStdClamped ==
  pol_pc \in {"eval_cont returned", "step_cont returned"} =>
    (LOG_STD_MIN <= exp_arg /\ exp_arg <= LOG_STD_MAX)

IsConstant(y) == \A j, k \in DOMAIN y : y[j] = y[k]
PredIsMeanOf(yp, yt) == \A k \in DOMAIN yp : Len(yt) * yp[k] = SumSeq(yt)
IsNumber(r, v) == r.k = "num" /\ r.n = v * r.d

=============================================================================
